---- MODULE Spec2Model ----
(***************************************************************************)
(* Netdev adaptation of the sx127x LoRa transceiver driver                 *)
(* (drivers/sx127x/sx127x_netdev.c).                                       *)
(*                                                                         *)
(* The driver struct (sx127x_t) is the variable dev, the chip's registers  *)
(* and FIFO are the variable chip.  Every netdev entry point (_send,       *)
(* _recv, _isr, _get, _set) is an operator from a machine state            *)
(* [dev, chip, sig] to a result [st, ret]; sig collects the events passed  *)
(* to netdev->event_callback during the call.  One action per entry point  *)
(* applies the operator and records the call in the variable last.  Where  *)
(* the order of the steps inside a call matters, the call is also run one  *)
(* step at a time, its position kept in the variable pc, with the events   *)
(* of the interrupt context free to happen between two steps.              *)
(*                                                                         *)
(* The functions of sx127x.c, sx127x_getset.c and sx127x_internal.c that   *)
(* this file calls are not part of the sources at hand; they are modelled  *)
(* from the specification (sections 4.1 to 4.5) and marked as such where   *)
(* they are defined.                                                       *)
(***************************************************************************)
EXTENDS Integers, Sequences, FiniteSets, TLC

VARIABLES dev, chip, last, pc

vars == <<dev, chip, last, pc>>

(***************************************************************************)
(* Bounds of the model.                                                    *)
(***************************************************************************)
\* longest packet the environment delivers to the receiver
MaxPktLen == 1
\* largest buffer capacity (len) passed to _recv
MaxCap == 1
\* option values tried by _set are 0..MaxOptVal, and 255
MaxOptVal == 13
\* values of the pending slot tried on the dispatcher are 0..MaxIrq
MaxIrq == 9
\* longest buffer of an iovec array passed to _send where the 8-bit length
\* is exercised
MaxBufLen == 256

(***************************************************************************)
(* Program constants.                                                      *)
(***************************************************************************)
\* sx127x.h: bandwidth, spreading factor and coding rate codes
SX127X_BW_125_KHZ == 0
SX127X_BW_500_KHZ == 2
SX127X_SF6 == 6
SX127X_SF12 == 12
SX127X_CR_4_5 == 1
SX127X_CR_4_8 == 4
\* sx127x.h: dev->irq values, one bit per DIO line
SX127X_IRQ_DIO0 == 1
SX127X_IRQ_DIO1 == 2
SX127X_IRQ_DIO2 == 4
SX127X_IRQ_DIO3 == 8
\* sx127x_registers.h: the DIO0 field of RegDioMapping1
SX127X_RF_LORA_DIOMAPPING1_DIO0_MASK == 63
SX127X_RF_LORA_DIOMAPPING1_DIO0_00 == 0
SX127X_RF_LORA_DIOMAPPING1_DIO0_01 == 64
\* the chip FIFO has 256 cells, addressed by 8-bit pointers that wrap
FifoSize == 256
\* sizes returned by _get and _set
sizeof_uint8_t == 1
sizeof_uint16_t == 2
sizeof_uint32_t == 4
sizeof_netopt_state_t == 4
sizeof_netopt_enable_t == 4

\* dev->settings.state (sx127x.h)
SX127X_RF_IDLE == "RF_IDLE"
SX127X_RF_RX_RUNNING == "RF_RX_RUNNING"
SX127X_RF_TX_RUNNING == "RF_TX_RUNNING"
RadioStates == {SX127X_RF_IDLE, SX127X_RF_RX_RUNNING, SX127X_RF_TX_RUNNING}

\* dev->settings.modem
SX127X_MODEM_FSK == "MODEM_FSK"
SX127X_MODEM_LORA == "MODEM_LORA"

\* the mode field of RegOpMode: every value of the 3-bit field is defined
SX127X_RF_OPMODE_SLEEP == "OPMODE_SLEEP"
SX127X_RF_OPMODE_STANDBY == "OPMODE_STANDBY"
SX127X_RF_OPMODE_SYNTHESIZER_TX == "OPMODE_SYNTHESIZER_TX"
SX127X_RF_OPMODE_TRANSMITTER == "OPMODE_TRANSMITTER"
SX127X_RF_OPMODE_SYNTHESIZER_RX == "OPMODE_SYNTHESIZER_RX"
SX127X_RF_OPMODE_RECEIVER == "OPMODE_RECEIVER"
SX127X_RF_LORA_OPMODE_RECEIVER_SINGLE == "OPMODE_RECEIVER_SINGLE"
SX127X_RF_LORA_OPMODE_CAD == "OPMODE_CAD"
RawOpModes ==
    {SX127X_RF_OPMODE_SLEEP, SX127X_RF_OPMODE_STANDBY,
     SX127X_RF_OPMODE_SYNTHESIZER_TX, SX127X_RF_OPMODE_TRANSMITTER,
     SX127X_RF_OPMODE_SYNTHESIZER_RX, SX127X_RF_OPMODE_RECEIVER,
     SX127X_RF_LORA_OPMODE_RECEIVER_SINGLE, SX127X_RF_LORA_OPMODE_CAD}

\* the eight LoRa interrupt sources of RegIrqFlags / RegIrqFlagsMask
SX127X_RF_LORA_IRQFLAGS_RXTIMEOUT == "RXTIMEOUT"
SX127X_RF_LORA_IRQFLAGS_RXDONE == "RXDONE"
SX127X_RF_LORA_IRQFLAGS_PAYLOADCRCERROR == "PAYLOADCRCERROR"
SX127X_RF_LORA_IRQFLAGS_VALIDHEADER == "VALIDHEADER"
SX127X_RF_LORA_IRQFLAGS_TXDONE == "TXDONE"
SX127X_RF_LORA_IRQFLAGS_CADDONE == "CADDONE"
SX127X_RF_LORA_IRQFLAGS_FHSSCHANGEDCHANNEL == "FHSSCHANGEDCHANNEL"
SX127X_RF_LORA_IRQFLAGS_CADDETECTED == "CADDETECTED"
IrqFlags ==
    {SX127X_RF_LORA_IRQFLAGS_RXTIMEOUT, SX127X_RF_LORA_IRQFLAGS_RXDONE,
     SX127X_RF_LORA_IRQFLAGS_PAYLOADCRCERROR,
     SX127X_RF_LORA_IRQFLAGS_VALIDHEADER, SX127X_RF_LORA_IRQFLAGS_TXDONE,
     SX127X_RF_LORA_IRQFLAGS_CADDONE,
     SX127X_RF_LORA_IRQFLAGS_FHSSCHANGEDCHANNEL,
     SX127X_RF_LORA_IRQFLAGS_CADDETECTED}

\* netopt_state_t (net/netopt.h); NETOPT_STATE_OFF is an enumerator that
\* _set_state does not handle, StateOutOfEnum is a value outside the enum
NETOPT_STATE_OFF == "STATE_OFF"
NETOPT_STATE_SLEEP == "STATE_SLEEP"
NETOPT_STATE_IDLE == "STATE_IDLE"
NETOPT_STATE_RX == "STATE_RX"
NETOPT_STATE_TX == "STATE_TX"
NETOPT_STATE_RESET == "STATE_RESET"
NETOPT_STATE_STANDBY == "STATE_STANDBY"
StateOutOfEnum == "STATE_OUT_OF_ENUM"
NetoptStates ==
    {NETOPT_STATE_OFF, NETOPT_STATE_SLEEP, NETOPT_STATE_IDLE,
     NETOPT_STATE_RX, NETOPT_STATE_TX, NETOPT_STATE_RESET,
     NETOPT_STATE_STANDBY}

\* netdev events passed to netdev->event_callback
NETDEV_EVENT_TX_COMPLETE == "TX_COMPLETE"
NETDEV_EVENT_RX_COMPLETE == "RX_COMPLETE"
NETDEV_EVENT_CRC_ERROR == "CRC_ERROR"
NETDEV_EVENT_TIMEOUT == "TIMEOUT"

\* results of the entry points: err is "OK" and val the returned number,
\* or err names the errno returned negated and val is 0
Ok(v) == [err |-> "OK", val |-> v]
Err(e) == [err |-> e, val |-> 0]
ENOTSUP == "ENOTSUP"
EBUSY == "EBUSY"
EINVAL == "EINVAL"
ENOBUFS == "ENOBUFS"
EBADMSG == "EBADMSG"
ENODEV == "ENODEV"

\* a timer that is not armed; an armed timer holds the duration it was set to
Disarmed == 0

RECURSIVE SumLen(_)
SumLen(vector) ==
    IF vector = <<>> THEN 0 ELSE Len(Head(vector)) + SumLen(Tail(vector))

RECURSIVE Concat(_)
Concat(vector) ==
    IF vector = <<>> THEN <<>> ELSE Head(vector) \o Concat(Tail(vector))

(***************************************************************************)
(* Accessors of the driver struct, timers and the event callback.          *)
(***************************************************************************)
sx127x_get_state(s) == s.dev.state

sx127x_set_state(s, state) == [s EXCEPT !.dev.state = state]

sx127x_get_op_mode(s) == s.chip.op_mode

sx127x_set_op_mode(s, mode) == [s EXCEPT !.chip.op_mode = mode]

xtimer_set_tx(s, offset) == [s EXCEPT !.dev.tx_timeout_timer = offset]

xtimer_remove_tx(s) == [s EXCEPT !.dev.tx_timeout_timer = Disarmed]

xtimer_set_rx(s, offset) == [s EXCEPT !.dev.rx_timeout_timer = offset]

xtimer_remove_rx(s) == [s EXCEPT !.dev.rx_timeout_timer = Disarmed]

event_callback(s, event) == [s EXCEPT !.sig = Append(@, event)]

(***************************************************************************)
(* Register port: the FIFO with its auto-incrementing address pointer.     *)
(* The FifoSize cells are kept as a function from the addresses of the      *)
(* cells that hold a non-zero byte to that byte; every other cell holds 0.  *)
(***************************************************************************)
\* the byte in the cell at address a
FifoCell(fifo, a) == IF a \in DOMAIN fifo THEN fifo[a] ELSE 0

sx127x_set_payload_length(s, size) == [s EXCEPT !.chip.payload_len = size]

\* a burst write: byte i of buffer goes to the cell i - 1 past the address
\* pointer, the pointer wrapping at the end of the FIFO, so that a cell
\* written more than once keeps the last byte written to it
sx127x_write_fifo(s, buffer) ==
    LET ptr == s.chip.fifo_addr_ptr
        n == Len(buffer)
        first(a) == ((a - ptr) % FifoSize) + 1
        final(a) == first(a) + ((n - first(a)) \div FifoSize) * FifoSize
        cell(a) == IF first(a) <= n THEN buffer[final(a)]
                   ELSE FifoCell(s.chip.fifo, a)
        written == {(ptr + i - 1) % FifoSize : i \in 1..n}
        held == {a \in (DOMAIN s.chip.fifo) \cup written : cell(a) # 0}
    IN  [s EXCEPT !.chip.fifo = [a \in held |-> cell(a)],
                  !.chip.fifo_addr_ptr = (ptr + n) % FifoSize]

\* the bytes sx127x_read_fifo copies out, starting at the address pointer
sx127x_read_fifo(s, size) ==
    [i \in 1..size |->
        FifoCell(s.chip.fifo, (s.chip.fifo_addr_ptr + i - 1) % FifoSize)]

(***************************************************************************)
(* Driver functions called by this file (sx127x.c, sx127x_getset.c),      *)
(* modelled from the specification, sections 3 and 4.1.                    *)
(***************************************************************************)
\* the interrupt mask a mode uses: every source but the ones it needs
TxIrqMask == IrqFlags \ {SX127X_RF_LORA_IRQFLAGS_TXDONE}

RxIrqMask ==
    IrqFlags \ {SX127X_RF_LORA_IRQFLAGS_RXDONE,
                SX127X_RF_LORA_IRQFLAGS_PAYLOADCRCERROR,
                SX127X_RF_LORA_IRQFLAGS_RXTIMEOUT}

\* the DIO0 field of RegDioMapping1 replaced by sel, the other fields kept
DioMapping1(reg, sel) ==
    ((reg % (SX127X_RF_LORA_DIOMAPPING1_DIO0_MASK + 1)) + sel)

\* 4.1 "Sleep: unconditionally allowed; cancels both timers; puts chip in
\* lowest-power mode"
sx127x_set_sleep(s) ==
    sx127x_set_state(
        sx127x_set_op_mode(xtimer_remove_rx(xtimer_remove_tx(s)),
                           SX127X_RF_OPMODE_SLEEP),
        SX127X_RF_IDLE)

\* 4.1 "Standby: unconditionally allowed"; section 3: a mode change away
\* from the state that armed a timer cancels it
sx127x_set_standby(s) ==
    sx127x_set_state(
        sx127x_set_op_mode(xtimer_remove_rx(xtimer_remove_tx(s)),
                           SX127X_RF_OPMODE_STANDBY),
        SX127X_RF_IDLE)

\* 4.1 "Receiving: arms receive with the currently configured rx timeout";
\* section 3: entering Receiving arms the rx timeout and sets the mask of
\* that mode, leaving Transmitting disarms the tx timeout
sx127x_set_rx(s) ==
    LET a == [s EXCEPT !.chip.irq_mask = RxIrqMask,
                       !.chip.dio_mapping1 =
                           DioMapping1(@, SX127X_RF_LORA_DIOMAPPING1_DIO0_00),
                       !.chip.fifo_rx_base = 0,
                       !.chip.fifo_addr_ptr = 0]
        b == sx127x_set_state(xtimer_remove_tx(a), SX127X_RF_RX_RUNNING)
        c == xtimer_set_rx(b, s.dev.rx_timeout)
    IN  sx127x_set_op_mode(c,
            IF s.dev.rx_continuous THEN SX127X_RF_OPMODE_RECEIVER
            ELSE SX127X_RF_LORA_OPMODE_RECEIVER_SINGLE)

\* 4.1 "Transmitting: rejected if already Transmitting (a transmit in
\* progress may not be restarted or overlapped); otherwise proceeds to
\* 4.2's send sequence" (steps 6 to 8: there is no payload to write)
sx127x_set_tx(s) ==
    IF sx127x_get_state(s) = SX127X_RF_TX_RUNNING THEN s
    ELSE LET a == [s EXCEPT !.chip.irq_mask = TxIrqMask,
                            !.chip.dio_mapping1 =
                                DioMapping1(@, SX127X_RF_LORA_DIOMAPPING1_DIO0_01)]
             b == xtimer_set_tx(xtimer_remove_rx(a), s.dev.tx_timeout)
         IN  sx127x_set_op_mode(sx127x_set_state(b, SX127X_RF_TX_RUNNING),
                                SX127X_RF_OPMODE_TRANSMITTER)

\* the chip's registers after a hardware reset
ChipReset ==
    [op_mode |-> SX127X_RF_OPMODE_STANDBY,
     irq_mask |-> {},
     irq_flags |-> {},
     dio_mapping1 |-> 0,
     payload_len |-> 1,
     fifo_tx_base |-> 0,
     fifo_rx_base |-> 0,
     fifo_addr_ptr |-> 0,
     fifo_rx_current_addr |-> 0,
     rx_nb_bytes |-> 0,
     pkt_snr_value |-> 0,
     pkt_rssi_value |-> 0,
     bandwidth |-> SX127X_BW_125_KHZ,
     spreading_factor |-> SX127X_SF6 + 1,
     coding_rate |-> SX127X_CR_4_5,
     fifo |-> [a \in {} |-> 0]]

\* 4.1 "Reset: triggers a hardware reset sequence": the chip's registers
\* return to their reset values, the driver struct is not touched
sx127x_reset(s) == [s EXCEPT !.chip = ChipReset]

(***************************************************************************)
(* _get_tx_len: the sum of the iov_len, accumulated in a uint8_t.          *)
(***************************************************************************)
\* _get_tx_len with an accumulator that does not wrap
_get_tx_len_Wide(vector) == SumLen(vector)

_get_tx_len(vector) == SumLen(vector) % 256

RECURSIVE WriteBuffers(_, _)
WriteBuffers(s, vector) ==
    IF vector = <<>> THEN s
    ELSE WriteBuffers(sx127x_write_fifo(s, Head(vector)), Tail(vector))

\* the test that rejects a send
SendBusy(s) == sx127x_get_state(s) = SX127X_RF_TX_RUNNING

\* SendWake with the wake-up missing
SendWake_Never(s) == s

\* "FIFO operations can not take place in Sleep mode": the chip is put in
\* standby (and the wake-up time waited) before the FIFO is written
SendWake(s) ==
    IF sx127x_get_op_mode(s) = SX127X_RF_OPMODE_SLEEP
    THEN sx127x_set_standby(s)
    ELSE s

\* the LoRa branch of the modem switch of _send
SendLoadFifo(s, vector) ==
    LET a == sx127x_set_payload_length(s, _get_tx_len(vector))
        b == [a EXCEPT !.chip.fifo_tx_base = 0, !.chip.fifo_addr_ptr = 0]
    IN  WriteBuffers(SendWake(b), vector)

\* SendStartTx with the xtimer_set of the tx timeout missing
SendStartTx_NoTimer(s) ==
    LET a == [s EXCEPT !.chip.irq_mask = TxIrqMask]
        b == [a EXCEPT !.chip.dio_mapping1 =
                  DioMapping1(@, SX127X_RF_LORA_DIOMAPPING1_DIO0_01)]
        d == sx127x_set_state(b, SX127X_RF_TX_RUNNING)
    IN  sx127x_set_op_mode(d, SX127X_RF_OPMODE_TRANSMITTER)

\* from "Enable TXDONE interrupt" to the end of _send
SendStartTx(s) ==
    LET a == [s EXCEPT !.chip.irq_mask = TxIrqMask]
        b == [a EXCEPT !.chip.dio_mapping1 =
                  DioMapping1(@, SX127X_RF_LORA_DIOMAPPING1_DIO0_01)]
        c == xtimer_set_tx(b, s.dev.tx_timeout)
        d == sx127x_set_state(c, SX127X_RF_TX_RUNNING)
    IN  sx127x_set_op_mode(d, SX127X_RF_OPMODE_TRANSMITTER)

_send(s, vector) ==
    IF SendBusy(s) THEN [st |-> s, ret |-> Err(ENOTSUP)]
    ELSE LET a == IF s.dev.modem = SX127X_MODEM_LORA
                  THEN SendLoadFifo(s, vector)
                  ELSE s
         IN  [st |-> SendStartTx(a), ret |-> Ok(0)]

(***************************************************************************)
(* _send one step at a time: the register, FIFO, timer and state writes of *)
(* an accepted send in program order, each a record [op, arg] with arg the *)
(* bytes or the value written.                                             *)
(***************************************************************************)
SendOp(op, arg) == [op |-> op, arg |-> arg]

\* the loop over the iovec array: one sx127x_write_fifo per buffer
RECURSIVE FifoWrites(_)
FifoWrites(vector) ==
    IF vector = <<>> THEN <<>>
    ELSE <<SendOp("write_fifo", Head(vector))>> \o FifoWrites(Tail(vector))

\* the steps of the LoRa branch of the modem switch
SendLoadOps(vector) ==
    << SendOp("set_payload_length", <<_get_tx_len(vector)>>),
       SendOp("write_fifo_tx_base", <<0>>),
       SendOp("write_fifo_addr_ptr", <<0>>),
       SendOp("wake_if_sleep", <<>>) >> \o FifoWrites(vector)

\* the steps from "Enable TXDONE interrupt" to the end of _send
SendStartOps ==
    << SendOp("write_irq_flags_mask", <<>>),
       SendOp("write_dio_mapping1", <<>>),
       SendOp("xtimer_set", <<>>),
       SendOp("set_state", <<>>),
       SendOp("set_op_mode", <<>>) >>

\* SendOps with the interrupt mask switched before the FIFO is loaded
SendOps_MaskFirst(s, vector) ==
    <<SendOp("write_irq_flags_mask", <<>>)>>
    \o (IF s.dev.modem = SX127X_MODEM_LORA THEN SendLoadOps(vector) ELSE <<>>)
    \o Tail(SendStartOps)

\* the steps of a send that passed the busy test
SendOps(s, vector) ==
    (IF s.dev.modem = SX127X_MODEM_LORA THEN SendLoadOps(vector) ELSE <<>>)
    \o SendStartOps

\* what one step does to the machine state
SendApply(s, o) ==
    CASE o.op = "set_payload_length" ->
             sx127x_set_payload_length(s, o.arg[1])
      [] o.op = "write_fifo_tx_base" ->
             [s EXCEPT !.chip.fifo_tx_base = o.arg[1]]
      [] o.op = "write_fifo_addr_ptr" ->
             [s EXCEPT !.chip.fifo_addr_ptr = o.arg[1]]
      [] o.op = "wake_if_sleep" -> SendWake(s)
      [] o.op = "write_fifo" -> sx127x_write_fifo(s, o.arg)
      [] o.op = "write_irq_flags_mask" ->
             [s EXCEPT !.chip.irq_mask = TxIrqMask]
      [] o.op = "write_dio_mapping1" ->
             [s EXCEPT !.chip.dio_mapping1 =
                  DioMapping1(@, SX127X_RF_LORA_DIOMAPPING1_DIO0_01)]
      [] o.op = "xtimer_set" -> xtimer_set_tx(s, s.dev.tx_timeout)
      [] o.op = "set_state" -> sx127x_set_state(s, SX127X_RF_TX_RUNNING)
      [] o.op = "set_op_mode" ->
             sx127x_set_op_mode(s, SX127X_RF_OPMODE_TRANSMITTER)

\* the machine state after the first n steps of ops
RECURSIVE RunOps(_, _, _)
RunOps(s, ops, n) ==
    IF n = 0 THEN s
    ELSE SendApply(RunOps(s, ops, n - 1), ops[n])

(***************************************************************************)
(* _recv.                                                                  *)
(***************************************************************************)
\* mid-band threshold and RSSI offsets of the SX1276 build (sx127x.h)
SX127X_RF_MID_BAND_THRESH == 525000000
SX127X_RSSI_OFFSET_LF == -164
SX127X_RSSI_OFFSET_HF == -157

\* uint8_t x: (~x + 1) & 0xFF, computed in int
NegateByte(x) == (((-x) - 1) + 1) % 256

\* v >> n of a signed int: the arithmetic shift the builds of the driver
\* produce, rounding toward negative infinity
ShiftRight(v, n) == v \div (2 ^ n)

\* PacketSnr with the shift applied to the magnitude before the negation
PacketSnr_ShiftFirst(snr_value) ==
    IF (snr_value \div 128) % 2 = 1
    THEN -1 * ShiftRight(NegateByte(snr_value), 2)
    ELSE ShiftRight(snr_value % 256, 2)

\* packet_info->snr from the value of RegPktSnrValue: unary minus and the
\* product bind tighter than the shift
PacketSnr(snr_value) ==
    IF (snr_value \div 128) % 2 = 1
    THEN ShiftRight(-1 * NegateByte(snr_value), 2)
    ELSE ShiftRight(snr_value % 256, 2)

\* RssiOffset with the threshold itself counted to the high band
RssiOffset_AtOrAbove(channel) ==
    IF channel >= SX127X_RF_MID_BAND_THRESH
    THEN SX127X_RSSI_OFFSET_HF
    ELSE SX127X_RSSI_OFFSET_LF

\* the offset the SX1276 build picks from the configured channel
RssiOffset(channel) ==
    IF channel > SX127X_RF_MID_BAND_THRESH
    THEN SX127X_RSSI_OFFSET_HF
    ELSE SX127X_RSSI_OFFSET_LF

\* the value the SX1276 build computes for packet_info->rssi
PacketRssi(channel, rssi, snr) ==
    IF snr < 0
    THEN RssiOffset(channel) + rssi + ShiftRight(rssi, 4) + snr
    ELSE RssiOffset(channel) + rssi + ShiftRight(rssi, 4)

NoInfo == [set |-> FALSE, lqi |-> 0, snr |-> 0, rssi |-> 0]

\* the fields of *info a call with info != NULL writes (time_on_air, which
\* sx127x_get_time_on_air computes from len and the modulation, is left out)
PacketInfo(s) ==
    LET snr == PacketSnr(s.chip.pkt_snr_value)
    IN  [set |-> TRUE, lqi |-> 0, snr |-> snr,
         rssi |-> PacketRssi(s.dev.channel, s.chip.pkt_rssi_value, snr)]

\* the test of the CRC-error flag after RXDONE was cleared
RecvCrcError(s) ==
    SX127X_RF_LORA_IRQFLAGS_PAYLOADCRCERROR \in s.chip.irq_flags

\* RecvDropPacket with the xtimer_remove of the rx timeout missing
RecvDropPacket_KeepTimer(s) ==
    LET a == [s EXCEPT !.chip.irq_flags =
                  @ \ {SX127X_RF_LORA_IRQFLAGS_PAYLOADCRCERROR}]
        b == IF ~s.dev.rx_continuous
             THEN sx127x_set_state(a, SX127X_RF_IDLE)
             ELSE a
    IN  event_callback(b, NETDEV_EVENT_CRC_ERROR)

\* the CRC-error branch
RecvDropPacket(s) ==
    LET a == [s EXCEPT !.chip.irq_flags =
                  @ \ {SX127X_RF_LORA_IRQFLAGS_PAYLOADCRCERROR}]
        b == IF ~s.dev.rx_continuous
             THEN sx127x_set_state(a, SX127X_RF_IDLE)
             ELSE a
    IN  event_callback(xtimer_remove_rx(b), NETDEV_EVENT_CRC_ERROR)

\* RecvProbe with the test of buf missing
RecvProbe_Never(has_buf) == FALSE

\* the test buf == NULL
RecvProbe(has_buf) == ~has_buf

\* RecvTooSmall with the comparison off by one
RecvTooSmall_OffByOne(size, len) == size >= len

\* the test that rejects a buffer
RecvTooSmall(size, len) == size > len

\* from the second test of the continuous flag to the FIFO read
RecvReadPacket(s, size) ==
    LET a == IF ~s.dev.rx_continuous
             THEN sx127x_set_state(s, SX127X_RF_IDLE)
             ELSE s
        b == xtimer_remove_rx(a)
        c == [b EXCEPT !.chip.fifo_addr_ptr = b.chip.fifo_rx_current_addr]
    IN  [st |-> [c EXCEPT !.chip.fifo_addr_ptr = (@ + size) % FifoSize],
         buf |-> sx127x_read_fifo(c, size)]

\* has_buf: buf != NULL; len: its capacity; has_info: info != NULL
_recv(s, has_buf, len, has_info) ==
    IF s.dev.modem # SX127X_MODEM_LORA
    THEN [st |-> s, ret |-> Ok(0), buf |-> <<>>, info |-> NoInfo]
    ELSE
    LET a == [s EXCEPT !.chip.irq_flags =
                  @ \ {SX127X_RF_LORA_IRQFLAGS_RXDONE}]
        info == IF has_info THEN PacketInfo(a) ELSE NoInfo
        size == a.chip.rx_nb_bytes
    IN  IF RecvCrcError(a)
        THEN [st |-> RecvDropPacket(a), ret |-> Err(EBADMSG),
              buf |-> <<>>, info |-> NoInfo]
        ELSE IF RecvProbe(has_buf)
        THEN [st |-> a, ret |-> Ok(size), buf |-> <<>>, info |-> info]
        ELSE IF RecvTooSmall(size, len)
        THEN [st |-> a, ret |-> Err(ENOBUFS), buf |-> <<>>, info |-> info]
        ELSE LET r == RecvReadPacket(a, size)
             IN  [st |-> r.st, ret |-> Ok(size), buf |-> r.buf, info |-> info]

(***************************************************************************)
(* _isr and the four DIO handlers (sx127x.c), the handlers modelled from   *)
(* the specification, section 4.1, hardware-driven transitions.            *)
(***************************************************************************)
\* Line0 is transmit-complete while Transmitting ("cancel tx timeout,
\* transition to Standby, signal transmit done") and receive-complete while
\* Receiving ("signal receive done"; the upper layer answers with _recv,
\* which drains the FIFO or reports the CRC error)
sx127x_on_dio0(s) ==
    CASE sx127x_get_state(s) = SX127X_RF_TX_RUNNING ->
             LET a == [xtimer_remove_tx(s) EXCEPT !.chip.irq_flags =
                           @ \ {SX127X_RF_LORA_IRQFLAGS_TXDONE}]
                 b == sx127x_set_op_mode(
                          sx127x_set_state(a, SX127X_RF_IDLE),
                          SX127X_RF_OPMODE_STANDBY)
             IN  event_callback(b, NETDEV_EVENT_TX_COMPLETE)
      [] sx127x_get_state(s) = SX127X_RF_RX_RUNNING ->
             event_callback(s, NETDEV_EVENT_RX_COMPLETE)
      [] OTHER -> s

\* "Timeout fired (rx): transition to Standby, signal Timeout"; section 8:
\* with continuous receive enabled the state remains Receiving
RxTimedOut(s) ==
    LET a == [xtimer_remove_rx(s) EXCEPT !.chip.irq_flags =
                  @ \ {SX127X_RF_LORA_IRQFLAGS_RXTIMEOUT}]
        b == IF s.dev.rx_continuous THEN a
             ELSE sx127x_set_op_mode(sx127x_set_state(a, SX127X_RF_IDLE),
                                     SX127X_RF_OPMODE_STANDBY)
    IN  event_callback(b, NETDEV_EVENT_TIMEOUT)

\* "Timeout fired (tx): transition to Standby, signal Timeout"
TxTimedOut(s) ==
    event_callback(
        sx127x_set_op_mode(
            sx127x_set_state(xtimer_remove_tx(s), SX127X_RF_IDLE),
            SX127X_RF_OPMODE_STANDBY),
        NETDEV_EVENT_TIMEOUT)

\* Line1 is the chip's receive-timeout source
sx127x_on_dio1(s) ==
    IF sx127x_get_state(s) = SX127X_RF_RX_RUNNING THEN RxTimedOut(s) ELSE s

\* Line2 (frequency-hop change) and Line3 (channel-activity detection)
\* drive no transition of section 4.1
sx127x_on_dio2(s) == s

sx127x_on_dio3(s) == s

\* IsrDispatch with the handlers of Line0 and Line1 swapped
IsrDispatch_Swapped(s, irq) ==
    CASE irq = SX127X_IRQ_DIO0 -> sx127x_on_dio1(s)
      [] irq = SX127X_IRQ_DIO1 -> sx127x_on_dio0(s)
      [] irq = SX127X_IRQ_DIO2 -> sx127x_on_dio2(s)
      [] irq = SX127X_IRQ_DIO3 -> sx127x_on_dio3(s)
      [] OTHER -> s

\* the switch of _isr on the value read from the pending slot
IsrDispatch(s, irq) ==
    CASE irq = SX127X_IRQ_DIO0 -> sx127x_on_dio0(s)
      [] irq = SX127X_IRQ_DIO1 -> sx127x_on_dio1(s)
      [] irq = SX127X_IRQ_DIO2 -> sx127x_on_dio2(s)
      [] irq = SX127X_IRQ_DIO3 -> sx127x_on_dio3(s)
      [] OTHER -> s

\* _isr with the slot left as it was
_isr_NoClear(s) == IsrDispatch(s, s.dev.irq)

_isr(s) == IsrDispatch([s EXCEPT !.dev.irq = 0], s.dev.irq)

(***************************************************************************)
(* _set_state and _get_state.                                              *)
(***************************************************************************)
\* SetStateHandled with the case of NETOPT_STATE_STANDBY missing
SetStateHandled_NoStandby(state) ==
    state \in {NETOPT_STATE_SLEEP, NETOPT_STATE_IDLE, NETOPT_STATE_RX,
               NETOPT_STATE_TX, NETOPT_STATE_RESET}

\* the targets the switch of _set_state has a case for
SetStateHandled(state) ==
    state \in {NETOPT_STATE_SLEEP, NETOPT_STATE_STANDBY, NETOPT_STATE_IDLE,
               NETOPT_STATE_RX, NETOPT_STATE_TX, NETOPT_STATE_RESET}

\* the radio operation each case calls
SetStateApply(s, state) ==
    CASE state = NETOPT_STATE_SLEEP -> sx127x_set_sleep(s)
      [] state = NETOPT_STATE_STANDBY -> sx127x_set_standby(s)
      [] state = NETOPT_STATE_IDLE ->
             sx127x_set_rx([s EXCEPT !.dev.window_timeout = 0])
      [] state = NETOPT_STATE_RX -> sx127x_set_rx(s)
      [] state = NETOPT_STATE_TX -> sx127x_set_tx(s)
      [] state = NETOPT_STATE_RESET -> sx127x_reset(s)

_set_state(s, state) ==
    IF SetStateHandled(state)
    THEN [st |-> SetStateApply(s, state), ret |-> Ok(sizeof_netopt_state_t)]
    ELSE [st |-> s, ret |-> Err(ENOTSUP)]

\* the local `state` of _get_state is not initialised: for a raw mode the
\* switch has no case for, the value copied out is whatever the variable
\* held, here the parameter uninit
_get_state(s, uninit) ==
    LET op_mode == sx127x_get_op_mode(s)
        state ==
            CASE op_mode = SX127X_RF_OPMODE_SLEEP -> NETOPT_STATE_SLEEP
              [] op_mode = SX127X_RF_OPMODE_STANDBY -> NETOPT_STATE_STANDBY
              [] op_mode = SX127X_RF_OPMODE_TRANSMITTER -> NETOPT_STATE_TX
              [] op_mode \in {SX127X_RF_OPMODE_RECEIVER,
                              SX127X_RF_LORA_OPMODE_RECEIVER_SINGLE} ->
                     NETOPT_STATE_IDLE
              [] OTHER -> uninit
    IN  [ret |-> Ok(sizeof_netopt_state_t), num |-> 0, str |-> state]

\* the values an uninitialised netopt_state_t can hold
UninitStates == NetoptStates \cup {StateOutOfEnum}

(***************************************************************************)
(* _get and _set.  Setters and getters of sx127x_getset.c are modelled     *)
(* from the specification, section 4.4: a setter stores the setting and    *)
(* writes it through to the chip, a getter reads the cached setting.       *)
(***************************************************************************)
NETOPT_STATE == "NETOPT_STATE"
NETOPT_DEVICE_MODE == "NETOPT_DEVICE_MODE"
NETOPT_CHANNEL == "NETOPT_CHANNEL"
NETOPT_BANDWIDTH == "NETOPT_BANDWIDTH"
NETOPT_SPREADING_FACTOR == "NETOPT_SPREADING_FACTOR"
NETOPT_CODING_RATE == "NETOPT_CODING_RATE"
NETOPT_MAX_PACKET_SIZE == "NETOPT_MAX_PACKET_SIZE"
NETOPT_INTEGRITY_CHECK == "NETOPT_INTEGRITY_CHECK"
NETOPT_CHANNEL_HOP == "NETOPT_CHANNEL_HOP"
NETOPT_CHANNEL_HOP_PERIOD == "NETOPT_CHANNEL_HOP_PERIOD"
NETOPT_SINGLE_RECEIVE == "NETOPT_SINGLE_RECEIVE"
NETOPT_RX_TIMEOUT == "NETOPT_RX_TIMEOUT"
NETOPT_TX_TIMEOUT == "NETOPT_TX_TIMEOUT"
NETOPT_TX_POWER == "NETOPT_TX_POWER"
NETOPT_FIXED_HEADER == "NETOPT_FIXED_HEADER"
NETOPT_PREAMBLE_LENGTH == "NETOPT_PREAMBLE_LENGTH"
NETOPT_IQ_INVERT == "NETOPT_IQ_INVERT"
\* an option neither switch has a case for
NETOPT_ADDRESS == "NETOPT_ADDRESS"

\* options written through unchecked and kept in dev.unchecked
UncheckedOpts ==
    {NETOPT_MAX_PACKET_SIZE, NETOPT_INTEGRITY_CHECK, NETOPT_CHANNEL_HOP,
     NETOPT_CHANNEL_HOP_PERIOD, NETOPT_TX_POWER, NETOPT_FIXED_HEADER,
     NETOPT_PREAMBLE_LENGTH, NETOPT_IQ_INVERT}

\* options whose value is a netopt_enable_t, stored as 0 or 1
EnableOpts ==
    {NETOPT_INTEGRITY_CHECK, NETOPT_CHANNEL_HOP, NETOPT_FIXED_HEADER,
     NETOPT_IQ_INVERT}

Bool(v) == IF v # 0 THEN 1 ELSE 0

sx127x_set_bandwidth(s, bw) ==
    [s EXCEPT !.dev.bandwidth = bw, !.chip.bandwidth = bw]

sx127x_set_spreading_factor(s, sf) ==
    [s EXCEPT !.dev.spreading_factor = sf, !.chip.spreading_factor = sf]

sx127x_set_coding_rate(s, cr) ==
    [s EXCEPT !.dev.coding_rate = cr, !.chip.coding_rate = cr]

sx127x_get_bandwidth(s) == s.dev.bandwidth

sx127x_get_spreading_factor(s) == s.dev.spreading_factor

sx127x_get_coding_rate(s) == s.dev.coding_rate

sx127x_set_modem(s, modem) == [s EXCEPT !.dev.modem = modem]

sx127x_set_channel(s, channel) == [s EXCEPT !.dev.channel = channel]

sx127x_set_rx_single(s, single) == [s EXCEPT !.dev.rx_continuous = ~single]

sx127x_set_rx_timeout(s, timeout) == [s EXCEPT !.dev.rx_timeout = timeout]

sx127x_set_tx_timeout(s, timeout) == [s EXCEPT !.dev.tx_timeout = timeout]

sx127x_set_unchecked(s, opt, v) ==
    [s EXCEPT !.dev.unchecked[opt] = IF opt \in EnableOpts THEN Bool(v) ELSE v]

\* the range tests of _set
BandwidthInvalid(bw) == bw < SX127X_BW_125_KHZ \/ bw > SX127X_BW_500_KHZ

\* SpreadingFactorInvalid with the upper comparison off by one
SpreadingFactorInvalid_OffByOne(sf) == sf < SX127X_SF6 \/ sf >= SX127X_SF12

SpreadingFactorInvalid(sf) == sf < SX127X_SF6 \/ sf > SX127X_SF12

CodingRateInvalid(cr) == cr < SX127X_CR_4_5 \/ cr > SX127X_CR_4_8

\* the value _set returns for an option written through unchecked
UncheckedSize(opt) ==
    CASE opt \in {NETOPT_MAX_PACKET_SIZE, NETOPT_CHANNEL_HOP_PERIOD,
                  NETOPT_IQ_INVERT} -> sizeof_uint8_t
      [] opt \in {NETOPT_TX_POWER, NETOPT_PREAMBLE_LENGTH} -> sizeof_uint16_t
      [] OTHER -> sizeof_netopt_enable_t

\* present: netdev != NULL; val: *val, a netopt_state_t for NETOPT_STATE,
\* a modem for NETOPT_DEVICE_MODE, a number otherwise
_set(s, present, opt, val) ==
    IF ~present THEN [st |-> s, ret |-> Err(ENODEV)]
    ELSE CASE opt = NETOPT_STATE -> _set_state(s, val)
      [] opt = NETOPT_DEVICE_MODE ->
             [st |-> sx127x_set_modem(s, val), ret |-> Ok(sizeof_netopt_enable_t)]
      [] opt = NETOPT_CHANNEL ->
             [st |-> sx127x_set_channel(s, val), ret |-> Ok(sizeof_uint32_t)]
      [] opt = NETOPT_BANDWIDTH ->
             IF BandwidthInvalid(val) THEN [st |-> s, ret |-> Err(EINVAL)]
             ELSE [st |-> sx127x_set_bandwidth(s, val),
                   ret |-> Ok(sizeof_uint8_t)]
      [] opt = NETOPT_SPREADING_FACTOR ->
             IF SpreadingFactorInvalid(val) THEN [st |-> s, ret |-> Err(EINVAL)]
             ELSE [st |-> sx127x_set_spreading_factor(s, val),
                   ret |-> Ok(sizeof_uint8_t)]
      [] opt = NETOPT_CODING_RATE ->
             IF CodingRateInvalid(val) THEN [st |-> s, ret |-> Err(EINVAL)]
             ELSE [st |-> sx127x_set_coding_rate(s, val),
                   ret |-> Ok(sizeof_uint8_t)]
      [] opt = NETOPT_SINGLE_RECEIVE ->
             [st |-> sx127x_set_rx_single(s, val # 0),
              ret |-> Ok(sizeof_netopt_enable_t)]
      [] opt = NETOPT_RX_TIMEOUT ->
             [st |-> sx127x_set_rx_timeout(s, val), ret |-> Ok(sizeof_uint32_t)]
      [] opt = NETOPT_TX_TIMEOUT ->
             [st |-> sx127x_set_tx_timeout(s, val), ret |-> Ok(sizeof_uint32_t)]
      [] opt \in UncheckedOpts ->
             [st |-> sx127x_set_unchecked(s, opt, val),
              ret |-> Ok(UncheckedSize(opt))]
      [] OTHER -> [st |-> s, ret |-> Err(ENOTSUP)]

\* what _get returns and writes to *val: num for a number, str for a
\* netopt_state_t or a modem
_get(s, present, opt, uninit) ==
    IF ~present THEN [ret |-> Err(ENODEV), num |-> 0, str |-> ""]
    ELSE CASE opt = NETOPT_STATE -> _get_state(s, uninit)
      [] opt = NETOPT_DEVICE_MODE ->
             [ret |-> Ok(sizeof_uint8_t), num |-> 0, str |-> s.dev.modem]
      [] opt = NETOPT_CHANNEL ->
             [ret |-> Ok(sizeof_uint32_t), num |-> s.dev.channel, str |-> ""]
      [] opt = NETOPT_BANDWIDTH ->
             [ret |-> Ok(sizeof_uint8_t), num |-> sx127x_get_bandwidth(s),
              str |-> ""]
      [] opt = NETOPT_SPREADING_FACTOR ->
             [ret |-> Ok(sizeof_uint8_t),
              num |-> sx127x_get_spreading_factor(s), str |-> ""]
      [] opt = NETOPT_CODING_RATE ->
             [ret |-> Ok(sizeof_uint8_t), num |-> sx127x_get_coding_rate(s),
              str |-> ""]
      [] opt \in {NETOPT_MAX_PACKET_SIZE, NETOPT_CHANNEL_HOP_PERIOD} ->
             [ret |-> Ok(sizeof_uint8_t), num |-> s.dev.unchecked[opt],
              str |-> ""]
      [] opt \in {NETOPT_INTEGRITY_CHECK, NETOPT_CHANNEL_HOP} ->
             [ret |-> Ok(0), num |-> s.dev.unchecked[opt], str |-> ""]
      [] opt = NETOPT_SINGLE_RECEIVE ->
             [ret |-> Ok(0), num |-> IF s.dev.rx_continuous THEN 0 ELSE 1,
              str |-> ""]
      [] OTHER -> [ret |-> Ok(0), num |-> 0, str |-> ""]

(***************************************************************************)
(* The state machine.                                                      *)
(***************************************************************************)
\* the channel _init configures
SX127X_CHANNEL_DEFAULT == 868300000

\* the machine state the operators work on, before any event is signalled
Cur == [dev |-> dev, chip |-> chip, sig |-> <<>>]

\* what a call writes through its pointer arguments, when it writes nothing
NoOut == [str |-> "", info |-> NoInfo]

\* what last keeps of the most recent event: the entry point or hardware
\* event, its distinguishing argument, what it returned, what it wrote
\* through its pointer arguments (the netopt_state_t of a state query, the
\* packet information of a receive) and the events it passed to
\* event_callback
Event(op, arg, ret, out, sig) ==
    [op |-> op, arg |-> arg, ret |-> ret, out |-> out, sig |-> sig]

\* an event that runs to completion: the position of a call in progress
\* is not touched
Commit(st, ev) == /\ dev' = st.dev
                  /\ chip' = st.chip
                  /\ last' = ev
                  /\ pc' = pc

\* the settings sx127x_init_radio_settings applies, then sx127x_set_sleep
DevInit ==
    [state |-> SX127X_RF_IDLE,
     modem |-> SX127X_MODEM_LORA,
     channel |-> SX127X_CHANNEL_DEFAULT,
     bandwidth |-> SX127X_BW_125_KHZ,
     spreading_factor |-> SX127X_SF6 + 1,
     coding_rate |-> SX127X_CR_4_5,
     rx_continuous |-> TRUE,
     rx_timeout |-> 1,
     tx_timeout |-> 1,
     window_timeout |-> 1,
     unchecked |-> [o \in UncheckedOpts |-> 0],
     irq |-> 0,
     tx_timeout_timer |-> Disarmed,
     rx_timeout_timer |-> Disarmed]

\* the state _init leaves: default settings, no pending interrupt, no timer
\* armed, the chip asleep
_init ==
    [dev |-> DevInit,
     chip |-> [ChipReset EXCEPT !.op_mode = SX127X_RF_OPMODE_SLEEP],
     sig |-> <<>>]

InitLast == Event("init", "", Ok(0), NoOut, <<>>)

\* pc while no call of the control context is in progress; otherwise call
\* names the entry point, step the next step to take, vector, buf, len and
\* info hold the arguments, size the local of _recv and irq the local of
\* _isr
NoCall ==
    [call |-> "", step |-> 0, vector |-> <<>>, buf |-> FALSE, len |-> 0,
     info |-> FALSE, size |-> 0, irq |-> 0]

Init == /\ dev = _init.dev
        /\ chip = _init.chip
        /\ last = InitLast
        /\ pc = NoCall

\* the iovec arrays passed to _send: each a sequence of byte buffers
Vectors == { << <<1>> >>, << <<1, 2>>, <<3>> >> }

\* the payload of a received packet of n bytes
RxPayload(n) == [i \in 1..n |-> 4 + i]

\* the bytes from + 1, from + 2, ... of a buffer of n bytes
Ramp(from, n) == [i \in 1..n |-> (from + i) % 256]

\* iovec arrays whose lengths add up to 0, to 3 with an empty buffer in
\* the middle, to one less than MaxBufLen, to MaxBufLen and to one more
TxVectors ==
    { <<>>,
      << Ramp(0, 2), <<>>, Ramp(8, 1) >>,
      << Ramp(0, MaxBufLen - 1) >>,
      << Ramp(0, MaxBufLen - 56), Ramp(32, 56) >>,
      << Ramp(0, MaxBufLen), Ramp(16, 1) >> }

Send(vector) ==
    /\ vector \in Vectors \cup TxVectors
    /\ LET r == _send(Cur, vector)
       IN  Commit(r.st, Event("send",
                              IF chip.op_mode = SX127X_RF_OPMODE_SLEEP
                              THEN "asleep" ELSE "awake",
                              r.ret, NoOut, r.st.sig))

Recv(has_buf, len, has_info) ==
    /\ len \in 0..MaxCap
    /\ LET r == _recv(Cur, has_buf, len, has_info)
       IN  Commit(r.st, Event("recv", IF has_buf THEN "buf" ELSE "null_buf",
                              r.ret, [str |-> "", info |-> r.info],
                              r.st.sig))

SetOption(opt, val) ==
    /\ opt # NETOPT_STATE
    /\ LET r == _set(Cur, TRUE, opt, val)
       IN  Commit(r.st, Event("set", opt, r.ret, NoOut, r.st.sig))

SetState(state) ==
    /\ state \in UninitStates
    /\ LET r == _set(Cur, TRUE, NETOPT_STATE, state)
       IN  Commit(r.st, Event("set_state", state, r.ret, NoOut,
                              r.st.sig))

GetOption(opt, uninit) ==
    /\ uninit \in UninitStates
    /\ LET r == _get(Cur, TRUE, opt, uninit)
       IN  Commit(Cur, Event("get", opt, r.ret,
                            [str |-> r.str, info |-> NoInfo], <<>>))

Isr ==
    /\ dev.irq \in 0..255
    /\ LET st == _isr(Cur)
       IN  Commit(st, Event("isr", "", Ok(dev.irq), NoOut, st.sig))

DioLines ==
    {SX127X_IRQ_DIO0, SX127X_IRQ_DIO1, SX127X_IRQ_DIO2, SX127X_IRQ_DIO3}

\* the GPIO callback of a DIO line records the line in the pending slot,
\* over whatever the slot held (4.5: a second interrupt overwrites it)
sx127x_on_dio_isr(s, line) == [s EXCEPT !.dev.irq = line]

DioIsr(line) ==
    /\ line \in DioLines
    /\ Commit(sx127x_on_dio_isr(Cur, line),
              Event("dio", "", Ok(0), NoOut, <<>>))

\* the xtimer callbacks of the two timeouts; a timer that fired is no
\* longer armed
TxTimeoutFire ==
    /\ dev.tx_timeout_timer # Disarmed
    /\ LET st == TxTimedOut(Cur)
       IN  Commit(st, Event("tx_timeout", "", Ok(0), NoOut, st.sig))

RxTimeoutFire ==
    /\ dev.rx_timeout_timer # Disarmed
    /\ LET st == RxTimedOut(Cur)
       IN  Commit(st, Event("rx_timeout", "", Ok(0), NoOut, st.sig))

\* the chip raises a source: its flag is set unless masked, and DIO0 records
\* its line when the DIO0 field selects that source
ChipRaise(s, flag, sel) ==
    IF flag \in s.chip.irq_mask THEN s
    ELSE [s EXCEPT !.chip.irq_flags = @ \cup {flag},
                   !.dev.irq =
                       IF DioMapping1(s.chip.dio_mapping1, sel)
                              = s.chip.dio_mapping1
                       THEN SX127X_IRQ_DIO0 ELSE @]

\* the chip finishes a transmission and falls back to standby
HwTxDone ==
    /\ chip.op_mode = SX127X_RF_OPMODE_TRANSMITTER
    /\ LET a == sx127x_set_op_mode(Cur, SX127X_RF_OPMODE_STANDBY)
           st == ChipRaise(a, SX127X_RF_LORA_IRQFLAGS_TXDONE,
                           SX127X_RF_LORA_DIOMAPPING1_DIO0_01)
       IN  Commit(st, Event("hw_tx_done", "", Ok(0), NoOut, <<>>))

\* the chip receives a packet of n bytes, with or without a CRC error; a
\* single receive falls back to standby
HwRxDone(n, crc_error) ==
    /\ chip.op_mode \in {SX127X_RF_OPMODE_RECEIVER,
                          SX127X_RF_LORA_OPMODE_RECEIVER_SINGLE}
    /\ LET a == sx127x_write_fifo(
                    [Cur EXCEPT !.chip.fifo_addr_ptr = chip.fifo_rx_base,
                                !.chip.fifo_rx_current_addr = chip.fifo_rx_base,
                                !.chip.rx_nb_bytes = n],
                    RxPayload(n))
           b == IF chip.op_mode = SX127X_RF_LORA_OPMODE_RECEIVER_SINGLE
                THEN sx127x_set_op_mode(a, SX127X_RF_OPMODE_STANDBY)
                ELSE a
           c == IF crc_error
                THEN ChipRaise(b, SX127X_RF_LORA_IRQFLAGS_PAYLOADCRCERROR, -1)
                ELSE b
           st == ChipRaise(c, SX127X_RF_LORA_IRQFLAGS_RXDONE,
                           SX127X_RF_LORA_DIOMAPPING1_DIO0_00)
       IN  Commit(st, Event("hw_rx_done", "", Ok(0), NoOut, <<>>))

Next ==
    \/ \E vector \in Vectors : Send(vector)
    \/ \E has_buf \in BOOLEAN, len \in 0..MaxCap, has_info \in BOOLEAN :
           Recv(has_buf, len, has_info)
    \/ \E state \in UninitStates : SetState(state)
    \/ \E single \in {0, 1} : SetOption(NETOPT_SINGLE_RECEIVE, single)
    \/ Isr
    \/ \E line \in DioLines : DioIsr(line)
    \/ TxTimeoutFire
    \/ RxTimeoutFire
    \/ HwTxDone
    \/ \E n \in 0..MaxPktLen, crc_error \in BOOLEAN : HwRxDone(n, crc_error)

Spec == Init /\ [][Next]_vars

\* the tx timeout is a one-shot xtimer: once armed it fires unless removed
FairSpec == Spec /\ WF_vars(TxTimeoutFire)

(***************************************************************************)
(* The entry points one step at a time.  A call of the control context     *)
(* (send, receive, the dispatcher) starts when none is in progress and     *)
(* then advances by one step of its code per action; the events of the     *)
(* interrupt context (a DIO line, a timeout callback, the chip finishing   *)
(* an operation, the dispatcher run from the interrupt) happen between any *)
(* two steps: the file takes no lock and disables no interrupt.            *)
(***************************************************************************)
\* a step that does not finish the call
Advance(st, p) == /\ dev' = st.dev
                  /\ chip' = st.chip
                  /\ last' = last
                  /\ pc' = p

\* the step that finishes the call
Return(st, ev) == /\ dev' = st.dev
                  /\ chip' = st.chip
                  /\ last' = ev
                  /\ pc' = NoCall

\* the busy test and the computation of the length
SendBegin(vector) ==
    /\ pc = NoCall
    /\ IF SendBusy(Cur)
       THEN Return(Cur, Event("send", "", Err(ENOTSUP), NoOut, <<>>))
       ELSE Advance(Cur, [NoCall EXCEPT !.call = "send", !.step = 1,
                                       !.vector = vector])

\* the next write of the send in progress
SendStep ==
    /\ pc.call = "send"
    /\ LET ops == SendOps(Cur, pc.vector)
           st == SendApply(Cur, ops[pc.step])
       IN  IF pc.step = Len(ops)
           THEN Return(st, Event("send", "", Ok(0), NoOut, <<>>))
           ELSE Advance(st, [pc EXCEPT !.step = @ + 1])

\* the modem switch of _recv
RecvBegin(has_buf, len, has_info) ==
    /\ pc = NoCall
    /\ IF dev.modem # SX127X_MODEM_LORA
       THEN Return(Cur, Event("recv", "", Ok(0), NoOut, <<>>))
       ELSE Advance(Cur, [NoCall EXCEPT !.call = "recv", !.step = 1,
                                       !.buf = has_buf, !.len = len,
                                       !.info = has_info])

\* the steps of the LoRa branch of _recv: 1 clears RXDONE, 2 reads the
\* flags, 3 to 6 are the CRC-error branch, 7 fills the packet information,
\* reads the size and tests the buffer, 8 to 10 read the packet
RecvStep ==
    /\ pc.call = "recv"
    /\ LET arg == IF pc.buf THEN "buf" ELSE "null_buf"
           info == IF pc.info THEN PacketInfo(Cur) ELSE NoInfo
           out == [str |-> "", info |-> info]
           idle == IF ~dev.rx_continuous
                   THEN sx127x_set_state(Cur, SX127X_RF_IDLE)
                   ELSE Cur
       IN  CASE pc.step = 1 ->
                    Advance([Cur EXCEPT !.chip.irq_flags =
                                 @ \ {SX127X_RF_LORA_IRQFLAGS_RXDONE}],
                            [pc EXCEPT !.step = 2])
             [] pc.step = 2 ->
                    Advance(Cur, [pc EXCEPT !.step =
                                      IF RecvCrcError(Cur) THEN 3 ELSE 7])
             [] pc.step = 3 ->
                    Advance([Cur EXCEPT !.chip.irq_flags =
                                 @ \ {SX127X_RF_LORA_IRQFLAGS_PAYLOADCRCERROR}],
                            [pc EXCEPT !.step = 4])
             [] pc.step = 4 -> Advance(idle, [pc EXCEPT !.step = 5])
             [] pc.step = 5 ->
                    Advance(xtimer_remove_rx(Cur), [pc EXCEPT !.step = 6])
             [] pc.step = 6 ->
                    Return(Cur, Event("recv", arg, Err(EBADMSG), NoOut,
                                      <<NETDEV_EVENT_CRC_ERROR>>))
             [] pc.step = 7 ->
                    IF RecvProbe(pc.buf)
                    THEN Return(Cur, Event("recv", arg, Ok(chip.rx_nb_bytes),
                                           out, <<>>))
                    ELSE IF RecvTooSmall(chip.rx_nb_bytes, pc.len)
                    THEN Return(Cur, Event("recv", arg, Err(ENOBUFS), out,
                                           <<>>))
                    ELSE Advance(Cur, [pc EXCEPT !.step = 8,
                                                 !.size = chip.rx_nb_bytes])
             [] pc.step = 8 -> Advance(idle, [pc EXCEPT !.step = 9])
             [] pc.step = 9 ->
                    Advance(xtimer_remove_rx(Cur), [pc EXCEPT !.step = 10])
             [] pc.step = 10 ->
                    Return([Cur EXCEPT !.chip.fifo_addr_ptr =
                                (chip.fifo_rx_current_addr + pc.size)
                                    % FifoSize],
                           Event("recv", arg, Ok(pc.size), NoOut, <<>>))

\* uint8_t irq = dev->irq
IsrBegin ==
    /\ pc = NoCall
    /\ Advance(Cur, [NoCall EXCEPT !.call = "isr", !.step = 2,
                                   !.irq = dev.irq])

\* dev->irq = 0; last keeps the value the slot held when it was cleared
IsrClear ==
    /\ pc.call = "isr" /\ pc.step = 2
    /\ dev' = [dev EXCEPT !.irq = 0]
    /\ chip' = chip
    /\ last' = Event("isr_clear", "", Ok(dev.irq), NoOut, <<>>)
    /\ pc' = [pc EXCEPT !.step = 3]

\* the switch on the value read
IsrHandle ==
    /\ pc.call = "isr" /\ pc.step = 3
    /\ LET st == IsrDispatch(Cur, pc.irq)
       IN  Return(st, Event("isr", "", Ok(pc.irq), NoOut, st.sig))

\* the dispatcher run to completion between two steps of a send or a
\* receive
IsrPreempt ==
    /\ pc.call \in {"send", "recv"}
    /\ Isr

\* set-state, whose steps are those of sx127x.c, as one step
SetStateCall(state) ==
    /\ pc = NoCall
    /\ SetState(state)

SetOptionCall(opt, val) ==
    /\ pc = NoCall
    /\ SetOption(opt, val)

NextIrq ==
    \/ SendBegin(<< <<1>> >>)
    \/ SendStep
    \/ \E has_buf \in BOOLEAN : RecvBegin(has_buf, MaxCap, FALSE)
    \/ RecvStep
    \/ IsrBegin
    \/ IsrClear
    \/ IsrHandle
    \/ IsrPreempt
    \/ \E state \in {NETOPT_STATE_RX, NETOPT_STATE_STANDBY} :
           SetStateCall(state)
    \/ SetOptionCall(NETOPT_SINGLE_RECEIVE, 1)
    \/ \E line \in DioLines : DioIsr(line)
    \/ TxTimeoutFire
    \/ RxTimeoutFire
    \/ HwTxDone
    \/ \E crc_error \in BOOLEAN : HwRxDone(MaxPktLen, crc_error)

SpecIrq == Init /\ [][NextIrq]_vars

(***************************************************************************)
(* The transmit path on its own, with payloads up to and beyond the 255    *)
(* bytes the 8-bit length holds.                                           *)
(***************************************************************************)
NextTx ==
    \/ \E vector \in TxVectors : Send(vector)
    \/ \E state \in {NETOPT_STATE_SLEEP, NETOPT_STATE_STANDBY} :
           SetState(state)
    \/ DioIsr(SX127X_IRQ_DIO0)
    \/ Isr
    \/ TxTimeoutFire
    \/ HwTxDone

SpecTx == Init /\ [][NextTx]_vars

(***************************************************************************)
(* The configuration surface on its own: _set and _get of the range-       *)
(* checked options, an unchecked one and one neither switch knows.         *)
(***************************************************************************)
OptVals == (0..MaxOptVal) \cup {255}

CheckedOpts ==
    {NETOPT_BANDWIDTH, NETOPT_SPREADING_FACTOR, NETOPT_CODING_RATE}

NextCfg ==
    \/ \E opt \in CheckedOpts, val \in OptVals : SetOption(opt, val)
    \/ \E val \in {0, MaxOptVal} : SetOption(NETOPT_TX_POWER, val)
    \/ SetOption(NETOPT_ADDRESS, 0)
    \/ \E opt \in CheckedOpts \cup {NETOPT_TX_POWER, NETOPT_ADDRESS} :
           GetOption(opt, StateOutOfEnum)

SpecCfg == Init /\ [][NextCfg]_vars

(***************************************************************************)
(* The conversions of _recv and _get_state over the values the chip's      *)
(* registers can hold: the initial state draws the raw operating mode, the *)
(* raw SNR and RSSI of the last packet and the channel.                    *)
(***************************************************************************)
RssiSamples == {0, 40, 255}

\* channels above, below and at the mid-band threshold
ChannelSamples ==
    {SX127X_CHANNEL_DEFAULT, 433000000, SX127X_RF_MID_BAND_THRESH,
     SX127X_RF_MID_BAND_THRESH + 1}

InitRaw ==
    /\ \E channel \in ChannelSamples :
           dev = [DevInit EXCEPT !.channel = channel]
    /\ \E op_mode \in RawOpModes, snr_value \in 0..255,
          rssi_value \in RssiSamples :
           chip = [ChipReset EXCEPT !.op_mode = op_mode,
                                    !.pkt_snr_value = snr_value,
                                    !.pkt_rssi_value = rssi_value]
    /\ last = InitLast
    /\ pc = NoCall

NextRaw ==
    \/ \E uninit \in UninitStates : GetOption(NETOPT_STATE, uninit)
    \/ \E has_buf \in BOOLEAN : Recv(has_buf, MaxCap, TRUE)
    \/ \E channel \in ChannelSamples : SetOption(NETOPT_CHANNEL, channel)

SpecRaw == InitRaw /\ [][NextRaw]_vars

(***************************************************************************)
(* Properties.                                                             *)
(***************************************************************************)
Transmitting == dev.state = SX127X_RF_TX_RUNNING

\* C1: in every reachable state in which the radio is Transmitting, a call
\* to send fails with Busy and changes nothing (timers, FIFO, registers,
\* interrupt mask and radio state are as before the call).
C1_SendWhileTransmittingIsBusy ==
    Transmitting =>
        \A vector \in Vectors :
            LET r == _send(Cur, vector)
            IN  r.ret = Err(EBUSY) /\ r.st = Cur

\* the values the documentation allows for a range-checked option
DocumentedRange(opt) ==
    CASE opt = NETOPT_BANDWIDTH -> SX127X_BW_125_KHZ..SX127X_BW_500_KHZ
      [] opt = NETOPT_SPREADING_FACTOR -> SX127X_SF6..SX127X_SF12
      [] opt = NETOPT_CODING_RATE -> SX127X_CR_4_5..SX127X_CR_4_8

\* the register of the chip that holds a range-checked option
ChipSetting(c, opt) ==
    CASE opt = NETOPT_BANDWIDTH -> c.bandwidth
      [] opt = NETOPT_SPREADING_FACTOR -> c.spreading_factor
      [] opt = NETOPT_CODING_RATE -> c.coding_rate

\* C2: for bandwidth, spreading factor and coding rate, set of a value in
\* the documented range succeeds and a following get returns that value;
\* set of a value outside the range fails with InvalidArgument, changes
\* neither the stored setting nor the chip register, and a following get
\* returns the previous value.
C2_RangeCheckedSetters ==
    \A opt \in CheckedOpts, val \in OptVals :
        LET r == _set(Cur, TRUE, opt, val)
            before == _get(Cur, TRUE, opt, StateOutOfEnum)
            after == _get(r.st, TRUE, opt, StateOutOfEnum)
        IN  IF val \in DocumentedRange(opt)
            THEN /\ r.ret.err = "OK"
                 /\ after.ret.err = "OK"
                 /\ after.num = val
            ELSE /\ r.ret = Err(EINVAL)
                 /\ r.st = Cur
                 /\ ChipSetting(r.st.chip, opt) = ChipSetting(chip, opt)
                 /\ after.num = before.num

\* C2 witness: valid values were stored (the upper end of each range) and
\* the last set was rejected.
C2_Witness ==
    /\ last.op = "set" /\ last.arg \in CheckedOpts
    /\ last.ret = Err(EINVAL)
    /\ dev.bandwidth = SX127X_BW_500_KHZ
    /\ dev.spreading_factor = SX127X_SF12
    /\ dev.coding_rate = SX127X_CR_4_8

\* what a probe (a receive with no buffer) must do in the current state
ProbeKeepsState(has_info) ==
    LET r == _recv(Cur, FALSE, 0, has_info)
    IN  /\ r.ret = Ok(chip.rx_nb_bytes)
        /\ r.st.dev.state = dev.state
        /\ r.st.dev.rx_timeout_timer = dev.rx_timeout_timer

\* C3 as stated: in every reachable state, whatever the interrupt flags, a
\* receive with no buffer returns the chip's byte count and leaves the radio
\* state and the rx timeout as they were.
C3_ProbeAlwaysKeepsState == \A has_info \in BOOLEAN : ProbeKeepsState(has_info)

\* C3 amended: with the LoRa modem and the CRC-error flag clear, a receive
\* with no buffer returns the chip's byte count and leaves the radio state
\* and the rx timeout as they were.
C3_ProbeKeepsStateWithoutCrcError ==
    (dev.modem = SX127X_MODEM_LORA /\ ~RecvCrcError(Cur)) =>
        \A has_info \in BOOLEAN : ProbeKeepsState(has_info)

\* C3 witness: a probe returned a non-zero count while the radio was
\* receiving with its rx timeout armed.
C3_Witness ==
    /\ last.op = "recv" /\ last.arg = "null_buf"
    /\ last.ret.err = "OK" /\ last.ret.val > 0
    /\ dev.state = SX127X_RF_RX_RUNNING
    /\ dev.rx_timeout_timer # Disarmed

\* C4: when the chip holds a packet of n bytes without CRC error, a
\* receive into a buffer of capacity below n fails with BufferTooSmall and
\* leaves the radio state, the rx timeout and the FIFO data untouched, and
\* the receive that follows it with capacity at least n returns n.
C4_TooSmallThenRetry ==
    (dev.modem = SX127X_MODEM_LORA /\ ~RecvCrcError(Cur)) =>
        \A len \in 0..MaxCap, has_info \in BOOLEAN :
            len < chip.rx_nb_bytes =>
                LET r == _recv(Cur, TRUE, len, has_info)
                IN  /\ r.ret = Err(ENOBUFS)
                    /\ r.buf = <<>>
                    /\ r.st.dev.state = dev.state
                    /\ r.st.dev.rx_timeout_timer = dev.rx_timeout_timer
                    /\ r.st.chip.fifo = chip.fifo
                    /\ r.st.chip.rx_nb_bytes = chip.rx_nb_bytes
                    /\ \A again \in chip.rx_nb_bytes..(MaxCap + 1) :
                           _recv(r.st, TRUE, again, has_info).ret
                               = Ok(chip.rx_nb_bytes)

\* C4 witness: a receive into a buffer failed with BufferTooSmall while the
\* chip held a packet.
C4_Witness ==
    /\ last.op = "recv" /\ last.arg = "buf"
    /\ last.ret = Err(ENOBUFS)
    /\ chip.rx_nb_bytes > 0
    /\ dev.rx_timeout_timer # Disarmed

\* C5: a set-state request for Transmitting is rejected with Busy while
\* the radio is Transmitting and leaves the transmit in progress alone; in
\* any other state it runs the send sequence.
C5_SetStateTxWhileTransmittingIsBusy ==
    LET r == _set_state(Cur, NETOPT_STATE_TX)
    IN  IF Transmitting
        THEN r.ret = Err(EBUSY) /\ r.st = Cur
        ELSE /\ r.ret.err = "OK"
             /\ r.st.dev.state = SX127X_RF_TX_RUNNING
             /\ r.st.dev.tx_timeout_timer = dev.tx_timeout

\* C6: while the radio is Transmitting, dispatching a pending Line0
\* interrupt cancels the tx timeout, takes the radio out of Transmitting,
\* empties the slot and signals TransmitComplete exactly once.
C6_TxCompleteDispatch ==
    (Transmitting /\ dev.irq = SX127X_IRQ_DIO0) =>
        LET st == _isr(Cur)
        IN  /\ st.dev.tx_timeout_timer = Disarmed
            /\ st.dev.state # SX127X_RF_TX_RUNNING
            /\ st.dev.irq = 0
            /\ st.sig = <<NETDEV_EVENT_TX_COMPLETE>>

\* C6 witness: the dispatcher ran and signalled TransmitComplete.
C6_Witness ==
    /\ last.op = "isr"
    /\ last.sig = <<NETDEV_EVENT_TX_COMPLETE>>
    /\ dev.state = SX127X_RF_IDLE
    /\ dev.tx_timeout_timer = Disarmed

\* the targets the documentation of set-state lists
DocumentedTargets ==
    {NETOPT_STATE_SLEEP, NETOPT_STATE_STANDBY, NETOPT_STATE_IDLE,
     NETOPT_STATE_RX, NETOPT_STATE_TX, NETOPT_STATE_RESET}

\* C8: a set-state request fails with Unsupported exactly when its target
\* is none of Sleep, Standby, Idle, Receiving, Transmitting and Reset, and
\* then changes nothing; requests for Sleep and Standby succeed from every
\* state.
C8_SetStateUnsupported ==
    \A state \in UninitStates :
        LET r == _set_state(Cur, state)
        IN  /\ (r.ret = Err(ENOTSUP)) <=> (state \notin DocumentedTargets)
            /\ (state \notin DocumentedTargets) => r.st = Cur
            /\ (state \in {NETOPT_STATE_SLEEP, NETOPT_STATE_STANDBY}) =>
                   r.ret.err = "OK"

\* C8 witness: a set-state request was refused as unsupported while the
\* radio was Transmitting.
C8_Witness ==
    /\ last.op = "set_state"
    /\ last.ret = Err(ENOTSUP)
    /\ Transmitting

\* C7: the driver never gets stuck: in every reachable state some event
\* is enabled, and whenever the radio is Transmitting it eventually leaves
\* Transmitting (by the transmit-complete interrupt or the tx timeout), so
\* that a later send is accepted.
C7_NeverStuck ==
    /\ []ENABLED <<Next>>_vars
    /\ (Transmitting ~> (~Transmitting /\ _send(Cur, <<>>).ret = Ok(0)))

\* C7 witness: the tx timeout fired and took the radio out of Transmitting.
C7_Witness ==
    /\ last.op = "tx_timeout"
    /\ last.sig = <<NETDEV_EVENT_TIMEOUT>>
    /\ ~Transmitting

\* the logical state the documentation gives for a raw mode
DocumentedState(op_mode) ==
    CASE op_mode = SX127X_RF_OPMODE_SLEEP -> {NETOPT_STATE_SLEEP}
      [] op_mode = SX127X_RF_OPMODE_STANDBY -> {NETOPT_STATE_STANDBY}
      [] op_mode = SX127X_RF_OPMODE_TRANSMITTER -> {NETOPT_STATE_TX}
      [] op_mode \in {SX127X_RF_OPMODE_RECEIVER,
                      SX127X_RF_LORA_OPMODE_RECEIVER_SINGLE} ->
             {NETOPT_STATE_IDLE}
      [] OTHER -> NetoptStates

\* C9: for every defined raw mode a state query yields one logical state
\* that depends on the raw mode alone: Sleep, Standby, Transmitting and
\* idle/receiving for the five modes that have one, and for the others
\* (synthesizer, channel-activity detection) a defined state that is the
\* same whatever else the query finds.
C9_StateQueryDeterministic ==
    (last.op = "get" /\ last.arg = NETOPT_STATE) =>
        /\ last.out.str \in DocumentedState(chip.op_mode)
        /\ \A uninit \in UninitStates :
               _get_state(Cur, uninit).str = last.out.str

\* the SNR the statement gives for a raw register value
StatedSnr(raw) ==
    IF raw >= 128
    THEN -(((((-raw) - 1) + 1) % 256) \div 4)
    ELSE raw \div 4

\* C10 as stated: the SNR a receive reports is 0 for raw 0x80, 1 for raw
\* 0x04, -1 for raw 0xFC, and in general raw >> 2 for a raw value with the
\* top bit clear and -(((~raw + 1) mod 256) >> 2) for one with the top bit
\* set.
C10_SnrAsStated ==
    (last.op = "recv" /\ last.out.info.set) =>
        LET raw == chip.pkt_snr_value
            snr == last.out.info.snr
        IN  /\ raw = 128 => snr = 0
            /\ raw = 4 => snr = 1
            /\ raw = 252 => snr = -1
            /\ snr = StatedSnr(raw)

\* the quarter-dB register value as a signed byte, divided by 4 rounding
\* toward negative infinity
SignedQuarter(raw) ==
    IF raw >= 128 THEN -(((256 - raw) + 3) \div 4) ELSE raw \div 4

\* C10 amended: the SNR a receive reports is -32 for raw 0x80, 1 for raw
\* 0x04, -1 for raw 0xFC, and in general the raw value read as a signed
\* byte and divided by 4 rounding toward negative infinity: raw >> 2 with
\* the top bit clear, (-((~raw + 1) mod 256)) >> 2 with the top bit set.
C10_SnrSignedQuarter ==
    (last.op = "recv" /\ last.out.info.set) =>
        LET raw == chip.pkt_snr_value
            snr == last.out.info.snr
        IN  /\ raw = 128 => snr = -32
            /\ raw = 4 => snr = 1
            /\ raw = 252 => snr = -1
            /\ snr = SignedQuarter(raw)

\* C10 witness: a receive that asked for the packet information succeeded
\* with a negative raw SNR that is no multiple of 4.
C10_Witness ==
    /\ last.op = "recv" /\ last.ret.err = "OK"
    /\ last.out.info.set
    /\ chip.pkt_snr_value = 253
    /\ last.out.info.snr = -1

\* the RSSI the statement gives for a channel, a raw register value and the
\* SNR reported with it
StatedRssi(channel, raw, snr) ==
    (IF channel > SX127X_RF_MID_BAND_THRESH
     THEN SX127X_RSSI_OFFSET_HF ELSE SX127X_RSSI_OFFSET_LF)
    + raw + (raw \div 16) + (IF snr < 0 THEN snr ELSE 0)

Receiving == dev.state = SX127X_RF_RX_RUNNING

\* C12: between any two events run to completion (send, receive,
\* set-state, interrupt dispatch, a timeout firing) the timers agree with
\* the mode: the tx timeout is armed only while the radio is Transmitting
\* and the rx timeout only while it is Receiving, so that every exit from
\* one of the two modes has disarmed its timeout.
C12_TimersAgreeWithMode ==
    /\ dev.tx_timeout_timer # Disarmed => Transmitting
    /\ dev.rx_timeout_timer # Disarmed => Receiving

\* C13: with the events of the interrupt context (the dispatcher, the two
\* timeout callbacks) free to run between any two steps of a send, a
\* receive or a set-state, every state in which no call is in progress is
\* consistent: no timeout is armed for a mode the radio has left, and the
\* radio is never Transmitting with no tx timeout armed and the
\* transmit-complete source masked.
C13_NoInconsistentInterleaving ==
    pc = NoCall =>
        /\ dev.tx_timeout_timer # Disarmed => Transmitting
        /\ dev.rx_timeout_timer # Disarmed => Receiving
        /\ ~(/\ Transmitting
             /\ dev.tx_timeout_timer = Disarmed
             /\ SX127X_RF_LORA_IRQFLAGS_TXDONE \in chip.irq_mask)

\* the position in ops of the first step named op, 0 if there is none
OpIndex(ops, op) ==
    IF \E i \in 1..Len(ops) : ops[i].op = op
    THEN CHOOSE i \in 1..Len(ops) :
             /\ ops[i].op = op
             /\ \A j \in 1..(i - 1) : ops[j].op # op
    ELSE 0

\* the steps that program the length and the FIFO pointers and write the
\* FIFO
LoadOpNames ==
    {"set_payload_length", "write_fifo_tx_base", "write_fifo_addr_ptr",
     "wake_if_sleep", "write_fifo"}

\* the order the statement gives to the steps of a send accepted in s
SendOrder(s, vector) ==
    LET ops == SendOps(s, vector)
        n == Len(ops)
        mask == OpIndex(ops, "write_irq_flags_mask")
        timer == OpIndex(ops, "xtimer_set")
        state == OpIndex(ops, "set_state")
        mode == OpIndex(ops, "set_op_mode")
        loaded == RunOps(s, ops, mask - 1)
        masked == RunOps(s, ops, mask)
        armed == RunOps(s, ops, timer)
        done == RunOps(s, ops, n)
    IN  /\ 0 < mask /\ mask < timer /\ timer < state /\ state < mode
        /\ mode = n
        /\ \A i \in 1..n :
               /\ ops[i].op \in LoadOpNames => i < mask
               /\ ops[i].op = "write_irq_flags_mask" => i = mask
               /\ ops[i].op = "xtimer_set" => i = timer
               /\ ops[i].op = "set_state" => i = state
        /\ masked.chip.irq_mask
               = IrqFlags \ {SX127X_RF_LORA_IRQFLAGS_TXDONE}
        /\ Cardinality(masked.chip.irq_mask) = 7
        /\ armed.dev.tx_timeout_timer = s.dev.tx_timeout
        /\ armed.dev.state # SX127X_RF_TX_RUNNING
        /\ RunOps(s, ops, state).dev.state = SX127X_RF_TX_RUNNING
        /\ done.chip.op_mode = SX127X_RF_OPMODE_TRANSMITTER
        /\ done.chip.fifo = loaded.chip.fifo
        /\ done.chip.payload_len = loaded.chip.payload_len
        /\ done.chip.fifo_addr_ptr = loaded.chip.fifo_addr_ptr
        /\ done.chip.fifo_tx_base = loaded.chip.fifo_tx_base
        /\ done = _send(s, vector).st

\* C14: in every accepted send the steps come in this order: the payload
\* length, the FIFO pointers and all FIFO writes first, then the switch of
\* the interrupt mask (transmit-complete unmasked, the seven other sources
\* masked), then the arming of the tx timeout with the configured
\* tx_timeout, then the radio state set to Transmitting, then the chip
\* commanded into transmit mode; nothing is written to the FIFO, the
\* length or the pointers after the mask switch.
C14_SendStepOrder ==
    ~SendBusy(Cur) => \A vector \in Vectors : SendOrder(Cur, vector)

\* C14 witness: a send of two buffers was accepted and left the FIFO
\* loaded, the mask switched, the tx timeout armed and the radio
\* Transmitting.
C14_Witness ==
    /\ last.op = "send" /\ last.ret = Ok(0)
    /\ chip.payload_len = 3
    /\ FifoCell(chip.fifo, 0) = 1
    /\ FifoCell(chip.fifo, 1) = 2
    /\ FifoCell(chip.fifo, 2) = 3
    /\ chip.irq_mask = TxIrqMask
    /\ dev.tx_timeout_timer = dev.tx_timeout
    /\ Transmitting
    /\ chip.op_mode = SX127X_RF_OPMODE_TRANSMITTER

\* C15: no FIFO write of a send happens while the chip's operating mode is
\* Sleep: from every state in which a send is accepted, the chip is out of
\* Sleep before each FIFO write, and when the send starts with the chip
\* asleep the chip is forced to standby before the first FIFO write.
C15_NoFifoWriteAsleep ==
    ~SendBusy(Cur) =>
        \A vector \in Vectors :
            LET ops == SendOps(Cur, vector)
                wake == OpIndex(ops, "wake_if_sleep")
                first == OpIndex(ops, "write_fifo")
            IN  /\ \A i \in 1..Len(ops) :
                       ops[i].op = "write_fifo" =>
                           RunOps(Cur, ops, i - 1).chip.op_mode
                               # SX127X_RF_OPMODE_SLEEP
                /\ (first > 0 /\ chip.op_mode = SX127X_RF_OPMODE_SLEEP) =>
                       /\ 0 < wake /\ wake < first
                       /\ RunOps(Cur, ops, wake).chip.op_mode
                              = SX127X_RF_OPMODE_STANDBY

\* C15 witness: a send that found the chip asleep was accepted and wrote
\* its payload to the FIFO.
C15_Witness ==
    /\ last.op = "send" /\ last.arg = "asleep" /\ last.ret = Ok(0)
    /\ chip.payload_len = 3
    /\ FifoCell(chip.fifo, 2) = 3
    /\ chip.op_mode = SX127X_RF_OPMODE_TRANSMITTER

\* C16: a dispatch cycle reads the pending slot, leaves it empty and runs
\* at most one handler: the handler of Line0, Line1, Line2 or Line3 when
\* the value read is that line, none when the slot was empty or held any
\* other value; when two lines are recorded before the dispatcher runs,
\* only the later one is seen and one handler runs.
C16_DispatchOneHandler ==
    /\ \A v \in 0..MaxIrq :
           LET empty == [Cur EXCEPT !.dev.irq = 0]
               st == _isr([Cur EXCEPT !.dev.irq = v])
           IN  /\ st.dev.irq = 0
               /\ Len(st.sig) <= 1
               /\ v = SX127X_IRQ_DIO0 => st = sx127x_on_dio0(empty)
               /\ v = SX127X_IRQ_DIO1 => st = sx127x_on_dio1(empty)
               /\ v = SX127X_IRQ_DIO2 => st = sx127x_on_dio2(empty)
               /\ v = SX127X_IRQ_DIO3 => st = sx127x_on_dio3(empty)
               /\ v \notin DioLines => st = empty
    /\ \A first \in DioLines, later \in DioLines :
           LET both == sx127x_on_dio_isr(sx127x_on_dio_isr(Cur, first), later)
           IN  /\ both.dev.irq = later
               /\ _isr(both) = _isr(sx127x_on_dio_isr(Cur, later))
               /\ Len(_isr(both).sig) <= 1

\* C16 witness: the dispatcher read Line1 while the radio was Receiving,
\* ran its handler, which signalled Timeout, and left the slot empty.
C16_Witness ==
    /\ last.op = "isr" /\ last.ret = Ok(SX127X_IRQ_DIO1)
    /\ last.sig = <<NETDEV_EVENT_TIMEOUT>>
    /\ dev.irq = 0

\* C17: a receive that finds the CRC-error flag set after clearing
\* receive-done clears that flag, cancels the rx timeout, takes the radio
\* state to standby/idle exactly when continuous receive is disabled (and
\* leaves it alone otherwise), signals CrcError exactly once, returns an
\* error, writes nothing to the caller's buffer or packet information and
\* reads nothing from the FIFO.
C17_CrcErrorDrop ==
    (dev.modem = SX127X_MODEM_LORA /\ RecvCrcError(Cur)) =>
        \A has_buf \in BOOLEAN, len \in 0..MaxCap, has_info \in BOOLEAN :
            LET r == _recv(Cur, has_buf, len, has_info)
            IN  /\ r.ret = Err(EBADMSG)
                /\ r.st.chip.irq_flags =
                       chip.irq_flags \ {SX127X_RF_LORA_IRQFLAGS_RXDONE,
                                         SX127X_RF_LORA_IRQFLAGS_PAYLOADCRCERROR}
                /\ r.st.dev.rx_timeout_timer = Disarmed
                /\ r.st.dev.state = IF dev.rx_continuous THEN dev.state
                                    ELSE SX127X_RF_IDLE
                /\ r.st.sig = <<NETDEV_EVENT_CRC_ERROR>>
                /\ r.buf = <<>>
                /\ r.info = NoInfo
                /\ r.st.chip.fifo = chip.fifo
                /\ r.st.chip.fifo_addr_ptr = chip.fifo_addr_ptr

\* C17 witness: with continuous receive disabled, a receive into a buffer
\* found the CRC error, signalled it and left the radio idle with no rx
\* timeout.
C17_Witness ==
    /\ last.op = "recv" /\ last.arg = "buf"
    /\ last.ret = Err(EBADMSG)
    /\ last.sig = <<NETDEV_EVENT_CRC_ERROR>>
    /\ ~dev.rx_continuous
    /\ dev.state = SX127X_RF_IDLE
    /\ dev.rx_timeout_timer = Disarmed
    /\ chip.rx_nb_bytes > 0

\* the bytes the steps of a send hand to sx127x_write_fifo, in order
WrittenBytes(ops) ==
    LET writes == SelectSeq(ops, LAMBDA o : o.op = "write_fifo")
    IN  Concat([i \in 1..Len(writes) |-> writes[i].arg])

\* the FIFO of c after bytes were written from cell 0 on: every cell holds
\* the last byte written to it
FifoHolds(c, bytes) ==
    \A i \in 1..Len(bytes) :
        i + FifoSize > Len(bytes) =>
            FifoCell(c.fifo, (i - 1) % FifoSize) = bytes[i]

\* what the statement says of the bytes: the FIFO gets the buffers
\* concatenated in order, nothing inserted
SendWritesPayload(vector) ==
    LET st == _send(Cur, vector).st
        written == WrittenBytes(SendOps(Cur, vector))
    IN  /\ written = Concat(vector)
        /\ Len(written) = SumLen(vector)
        /\ FifoHolds(st.chip, Concat(vector))
        /\ st.chip.fifo_tx_base = 0
        /\ st.chip.fifo_addr_ptr = SumLen(vector) % FifoSize

\* C18 as stated: for every accepted send the programmed payload length is
\* the sum of the buffer lengths and the number of bytes written to the
\* FIFO, capped at 255 when the sum exceeds 255, and the FIFO receives the
\* buffers concatenated in order.
C18_LengthCapped ==
    (~SendBusy(Cur) /\ dev.modem = SX127X_MODEM_LORA) =>
        \A vector \in TxVectors :
            /\ _send(Cur, vector).st.chip.payload_len
                   = (IF SumLen(vector) > 255 THEN 255 ELSE SumLen(vector))
            /\ SendWritesPayload(vector)

\* C18 amended: for every accepted send the FIFO receives the buffers
\* concatenated in order, all of their bytes; the programmed payload
\* length is their sum modulo 256 (the 8-bit accumulator wraps): it is the
\* sum and the number of bytes written when the sum is at most 255, and
\* for a larger sum it is smaller than the number of bytes written (0 for
\* 256, 1 for 257).
C18_LengthWraps ==
    (~SendBusy(Cur) /\ dev.modem = SX127X_MODEM_LORA) =>
        \A vector \in TxVectors :
            LET len == _send(Cur, vector).st.chip.payload_len
            IN  /\ len = SumLen(vector) % 256
                /\ SumLen(vector) <= 255 => len = SumLen(vector)
                /\ SumLen(vector) = 256 => len = 0
                /\ SumLen(vector) = 257 => len = 1
                /\ SendWritesPayload(vector)

\* C18 witness: a send of 257 bytes in two buffers was accepted: the
\* length programmed is 1 and the last byte went to cell 0 of the FIFO.
C18_Witness ==
    /\ last.op = "send" /\ last.ret = Ok(0)
    /\ chip.payload_len = 1
    /\ chip.fifo_addr_ptr = 1
    /\ FifoCell(chip.fifo, 0) = 17
    /\ FifoCell(chip.fifo, 1) = 2
    /\ FifoCell(chip.fifo, 255) = 0

\* C19: no recorded interrupt is cleared without being served: with a
\* line free to be recorded at any point of the dispatcher, also between
\* its read of the pending slot and its clearing of it, the value the
\* clearing erases is the value the dispatcher read and is about to hand
\* to a handler (or the slot was empty).
C19_NoRecordedInterruptErased ==
    (pc.call = "isr" /\ pc.step = 3 /\ last.op = "isr_clear") =>
        last.ret.val \in {0, pc.irq}

\* the state query reports Transmitting, whatever its local variable held
QueryTx(s) ==
    \A uninit \in UninitStates :
        _get_state(s, uninit).str = NETOPT_STATE_TX

\* send is rejected exactly when the state query reports Transmitting
TxViewsAgree(s) == SendBusy(s) <=> QueryTx(s)

\* C20: the driver-side state and the chip's operating mode agree on
\* transmit: send is rejected as busy exactly when the state query
\* reports Transmitting, send sets both together, and neither send nor
\* receive changes one of the two without the other (from a state in
\* which they agree, both lead to a state in which they agree).
C20_TransmitViewsAgree ==
    TxViewsAgree(Cur) =>
        /\ \A vector \in Vectors :
               LET r == _send(Cur, vector)
               IN  /\ TxViewsAgree(r.st)
                   /\ r.ret = Ok(0) => (SendBusy(r.st) /\ QueryTx(r.st))
        /\ \A has_buf \in BOOLEAN, len \in 0..MaxCap, has_info \in BOOLEAN :
               TxViewsAgree(_recv(Cur, has_buf, len, has_info).st)

====
